---- MODULE Spec2Model ----
(***************************************************************************)
(* A model of the ROS1 TCPROS transport of roslibrust:                     *)
(*   - the Publication (roslibrust/src/ros1/publisher.rs): the acceptor    *)
(*     task, the fan-out task, the bounded outbound queue and the peer set *)
(*   - the Subscription (roslibrust/src/ros1/subscriber.rs): the           *)
(*     add_publisher_source call and the reader tasks it spawns.           *)
(*   - deduplicate_packages (roslibrust_codegen/src/utils.rs).             *)
(* Bytes are small integers, a stream's content is a sequence of bytes.    *)
(***************************************************************************)
EXTENDS Integers, Sequences, FiniteSets, TLC

\* ------------------------------------------------------------------ bounds
NumPeers == 2
MaxSubmits == 2
QueueSize == 1
NumUris == 2
MaxCalls == 2
MaxReads == 2
NumConsumers == 1
BcastSize == 1
MaxPkgs == 4

Peers == 1..NumPeers
Uris == 1..NumUris
Consumers == 1..NumConsumers

\* ------------------------------------------------------------- helpers
Range(s) == {s[i] : i \in 1..Len(s)}

\* The first n elements of s (the bytes a short write or read transfers).
Take(s, n) == SubSeq(s, 1, n)

\* The elements of s after the first n.
DropN(s, n) == SubSeq(s, n + 1, Len(s))

\* Vec::remove(i) with a 0-based index: the later elements shift left.
VecRemove(s, i) == SubSeq(s, 1, i) \o SubSeq(s, i + 2, Len(s))

\* ------------------------------------------------- ConnectionHeader codec
\* The md5sum of the Publication / Subscription, and a different one.
OurMd5 == 7
OtherMd5 == 9

\* A header on the wire: a length prefix counting the bytes that follow, then
\* the body (here the md5sum field alone).
ToBytes(md5) == <<1, md5>>

\* ConnectionHeader::from_bytes: Err on truncation or a bad length.
FromBytes(b) ==
    IF Len(b) >= 1 /\ b[1] = Len(b) - 1 /\ Len(b) = 2
    THEN [ok |-> TRUE, md5sum |-> b[2]]
    ELSE [ok |-> FALSE, md5sum |-> 0]

\* What a peer may put on the wire as its header: a matching header, a header
\* with another md5sum, a truncated header, nothing at all.
HeaderInputs == {ToBytes(OurMd5), ToBytes(OtherMd5), <<1>>, <<>>}

\* The k-th payload a producer submits (already encoded by the typed facade):
\* two bytes, different from those of every other payload.
Payload(k) == <<20 + k, 30 + k>>

\* The byte strings one read of a publisher's stream may return.
Chunks == {<<1>>, <<2, 3>>}

\* The results of one write() of buf to a socket: Ok(n) with 1 <= n <= len
\* (write, unlike write_all, may transfer only a part), or Err when the peer
\* has closed or reset the connection.  0 stands for Err.
WriteResults(buf, closed) == (1..Len(buf)) \cup (IF closed THEN {0} ELSE {})

VARIABLES
    \* ---- Publication
    pubAlive,     \* the Publication has not been dropped
    accPc,        \* acceptor task: accept | read | respond | lock | panicked | aborted
    accCur,       \* the stream the acceptor is handshaking with (0: none)
    streams,      \* subscriber_streams: the peer set, a Vec of streams
    pubPc,        \* fan-out task: recv | lock | write | aborted
    msg,          \* msg_to_publish of the running pass
    idx,          \* stream_idx of the running pass (0-based)
    toRemove,     \* streams_to_remove of the running pass
    queue,        \* the mpsc channel's buffer
    prodPc,       \* the producer: idle | blocked
    prodMsg,      \* the payload of the suspended send
    lastSubmit,   \* the result of the producer's last completed submit
    conn,         \* per peer: idle | pending | handshake | member | rejected | removed | lost | closed
    sentHdr,      \* per peer: the header bytes it sent
    peerClosed,   \* per peer: it has closed or reset its socket
    wire,         \* per peer: the bytes the Publication wrote to it
    \* ---- Publication, history
    accepted,     \* payloads whose submit returned Ok, in order
    dequeued,     \* payloads the fan-out task received, in order
    due,          \* per peer: the payloads of the passes run while it was in the set
    insertedAt,   \* per peer: Len(wire) when it was pushed into the peer set
    inserted,     \* peers ever pushed into the peer set
    failed,       \* peers whose write failed in a pass
    passBase,     \* per peer: Len(wire) when the latest pass began (-1: not in that pass)
    pushedBehind, \* per peer: it was pushed while a submitted payload waited to be
                  \* fanned out, and no pass has reached it since
    queueAtDrop,  \* the queue's content when the Publication was dropped
    \* ---- Subscription
    subAlive,     \* the Subscription has not been dropped
    known,        \* known_publishers: a Vec of URIs
    tasks,        \* subscription_tasks: one record per spawned reader task
    calls,        \* the add_publisher_source calls made, with what each returned
    bcast,        \* the payloads sent into the broadcast channel, with their sender
    nReads,       \* the read-loop reads performed so far
    cons,         \* per broadcast consumer: none | open | closed, and its position
    \* ---- deduplicate_packages
    pkgPc,        \* idle | loop | collect | done
    packages,     \* the argument: a Vec of Packages
    pkgIdx,       \* the number of packages the for loop has consumed
    package_map,  \* the HashMap, a function from keys to Packages
    deduplicated  \* the returned Vec

pubVars == <<pubAlive, accPc, accCur, streams, pubPc, msg, idx, toRemove, queue,
             prodPc, prodMsg, lastSubmit, conn, sentHdr, peerClosed, wire,
             accepted, dequeued, due, insertedAt, inserted, failed, passBase,
             pushedBehind, queueAtDrop>>

subVars == <<subAlive, known, tasks, calls, bcast, nReads, cons>>

pkgVars == <<pkgPc, packages, pkgIdx, package_map, deduplicated>>

vars == <<pubVars, subVars, pkgVars>>

InitPub ==
    /\ pubAlive = TRUE
    /\ accPc = "accept"
    /\ accCur = 0
    /\ streams = <<>>
    /\ pubPc = "recv"
    /\ msg = <<>>
    /\ idx = 0
    /\ toRemove = <<>>
    /\ queue = <<>>
    /\ prodPc = "idle"
    /\ prodMsg = <<>>
    /\ lastSubmit = "none"
    /\ conn = [p \in Peers |-> "idle"]
    /\ sentHdr = [p \in Peers |-> <<>>]
    /\ peerClosed = [p \in Peers |-> FALSE]
    /\ wire = [p \in Peers |-> <<>>]
    /\ accepted = <<>>
    /\ dequeued = <<>>
    /\ due = [p \in Peers |-> <<>>]
    /\ insertedAt = [p \in Peers |-> 0]
    /\ inserted = {}
    /\ failed = {}
    /\ passBase = [p \in Peers |-> -1]
    /\ pushedBehind = [p \in Peers |-> FALSE]
    /\ queueAtDrop = <<>>

\* ------------------------------------------------------ Publication: peers
\* The listener is owned by the acceptor task and lives as long as it.
ListenerOpen == accPc \notin {"panicked", "aborted"}

\* A client dials the listener and sends its header bytes h (possibly none).
\* Clients are numbered in the order they connect.
PeerConnect(p, h) ==
    /\ ListenerOpen
    /\ conn[p] = "idle"
    /\ \A q \in Peers : q < p => conn[q] # "idle"
    /\ conn' = [conn EXCEPT ![p] = "pending"]
    /\ sentHdr' = [sentHdr EXCEPT ![p] = h]
    /\ UNCHANGED <<pubAlive, accPc, accCur, streams, pubPc, msg, idx, toRemove,
                   queue, prodPc, prodMsg, lastSubmit, peerClosed, wire,
                   accepted, dequeued, due, insertedAt, inserted, failed>>
    /\ UNCHANGED <<passBase, pushedBehind, queueAtDrop, subVars, pkgVars>>

\* A connected client closes or resets its socket, at any point.
PeerClose(p) ==
    /\ conn[p] \in {"pending", "handshake", "member"}
    /\ ~peerClosed[p]
    /\ peerClosed' = [peerClosed EXCEPT ![p] = TRUE]
    /\ UNCHANGED <<pubAlive, accPc, accCur, streams, pubPc, msg, idx, toRemove,
                   queue, prodPc, prodMsg, lastSubmit, conn, sentHdr, wire,
                   accepted, dequeued, due, insertedAt, inserted, failed>>
    /\ UNCHANGED <<passBase, pushedBehind, queueAtDrop, subVars, pkgVars>>

\* --------------------------------------------------- Publication: acceptor
\* tcp_listener.accept() returns the oldest pending connection.
AccAccept(p) ==
    /\ accPc = "accept"
    /\ conn[p] = "pending"
    /\ \A q \in Peers : q < p => conn[q] # "pending"
    /\ accPc' = "read"
    /\ accCur' = p
    /\ conn' = [conn EXCEPT ![p] = "handshake"]
    /\ UNCHANGED <<pubAlive, streams, pubPc, msg, idx, toRemove, queue, prodPc,
                   prodMsg, lastSubmit, sentHdr, peerClosed, wire, accepted,
                   dequeued, due, insertedAt, inserted, failed>>
    /\ UNCHANGED <<passBase, pushedBehind, queueAtDrop, subVars, pkgVars>>

\* (a read that returns no bytes at once when the peer has sent none)
ReadResultsNoWait(p) ==
    IF sentHdr[p] # <<>>
    THEN {[ok |-> TRUE, bytes |-> sentHdr[p]]}
    ELSE {[ok |-> TRUE, bytes |-> <<>>]}

\* The results of the acceptor's one read_buf on the stream of p: the bytes p
\* sent; end of file (no bytes) once p closed without sending; an error once
\* p reset the connection.  With nothing sent and the socket open the read
\* does not return.
ReadResults(p) ==
    IF sentHdr[p] # <<>>
    THEN {[ok |-> TRUE, bytes |-> sentHdr[p]]}
         \cup (IF peerClosed[p] THEN {[ok |-> FALSE, bytes |-> <<>>]} ELSE {})
    ELSE IF peerClosed[p]
         THEN {[ok |-> TRUE, bytes |-> <<>>], [ok |-> FALSE, bytes |-> <<>>]}
         ELSE {}

\* (an acceptor that takes any header that decodes)
Md5MatchesAny(hdr) == TRUE

\* connection_header.md5sum == responding_conn_header.md5sum
Md5Matches(hdr) == hdr.md5sum = OurMd5

\* The header read, its decoding and the md5 comparison.  A read error, an
\* undecodable header and a mismatch all drop the stream and loop to accept.
AccRead ==
    /\ accPc = "read"
    /\ \E r \in ReadResults(accCur) :
         IF r.ok /\ FromBytes(r.bytes).ok /\ Md5Matches(FromBytes(r.bytes))
         THEN /\ accPc' = "respond"
              /\ UNCHANGED <<accCur, conn>>
         ELSE /\ accPc' = "accept"
              /\ accCur' = 0
              /\ conn' = [conn EXCEPT ![accCur] = "rejected"]
    /\ UNCHANGED <<pubAlive, streams, pubPc, msg, idx, toRemove, queue, prodPc,
                   prodMsg, lastSubmit, sentHdr, peerClosed, wire, accepted,
                   dequeued, due, insertedAt, inserted, failed>>
    /\ UNCHANGED <<passBase, pushedBehind, queueAtDrop, subVars, pkgVars>>

\* The connection states once the sockets of the peers in S are closed.
CloseConns(c, S) == [q \in Peers |-> IF q \in S THEN "closed" ELSE c[q]]

\* stream.write(&response_header_bytes).await.expect(..): an Err panics the
\* task; Ok(n) goes on to the peer-set lock whatever n is.  The panic unwinds
\* the task: its stream and the listener (with the connections not yet
\* accepted) close, and so does the peer set if the fan-out task is gone.
AccRespond ==
    /\ accPc = "respond"
    /\ \E n \in WriteResults(ToBytes(OurMd5), peerClosed[accCur]) :
         IF n = 0
         THEN /\ accPc' = "panicked"
              /\ accCur' = 0
              /\ LET gone == {q \in Peers : conn[q] = "pending"}
                                \cup (IF pubPc = "aborted" THEN Range(streams) ELSE {})
                 IN conn' = CloseConns([conn EXCEPT ![accCur] = "lost"], gone)
              /\ streams' = IF pubPc = "aborted" THEN <<>> ELSE streams
              /\ wire' = wire
         ELSE /\ accPc' = "lock"
              /\ wire' = [wire EXCEPT ![accCur] = @ \o Take(ToBytes(OurMd5), n)]
              /\ UNCHANGED <<accCur, conn, streams>>
    /\ UNCHANGED <<pubAlive, pubPc, msg, idx, toRemove, queue, prodPc,
                   prodMsg, lastSubmit, sentHdr, peerClosed, accepted,
                   dequeued, due, insertedAt, inserted, failed>>
    /\ UNCHANGED <<passBase, pushedBehind, queueAtDrop, subVars, pkgVars>>

\* (a fan-out task that gives the lock up between the writes of a pass)
FanoutHoldsNoLock == FALSE

\* The fan-out task holds the peer set's write lock for the whole pass.
FanoutHoldsLock == pubPc = "write"

\* subscriber_streams.write().await, then push: there is no await between the
\* lock's acquisition and its release, so the three are one step.
AccPush ==
    /\ accPc = "lock"
    /\ ~FanoutHoldsLock
    /\ streams' = Append(streams, accCur)
    /\ conn' = [conn EXCEPT ![accCur] = "member"]
    /\ insertedAt' = [insertedAt EXCEPT ![accCur] = Len(wire[accCur])]
    /\ inserted' = inserted \cup {accCur}
    /\ pushedBehind' = [pushedBehind EXCEPT ![accCur] = queue # <<>> \/ pubPc = "lock"]
    /\ accPc' = "accept"
    /\ accCur' = 0
    /\ UNCHANGED <<pubAlive, pubPc, msg, idx, toRemove, queue, prodPc, prodMsg,
                   lastSubmit, sentHdr, peerClosed, wire, accepted, dequeued,
                   due, failed>>
    /\ UNCHANGED <<passBase, queueAtDrop, subVars, pkgVars>>

\* ---------------------------------------------------- Publication: submit
\* (a channel that never applies backpressure)
SubmitHasRoomUnbounded == TRUE

\* mpsc::channel(queue_size): a send completes at once while the buffer holds
\* fewer than queue_size payloads.
SubmitHasRoom == Len(queue) < QueueSize

\* (a receiver that closes while the peer set is empty)
ReceiverOpenWhilePeers == pubPc \notin {"aborted", "panicked"} /\ streams # <<>>

\* The receiver lives in the fan-out task.
ReceiverOpen == pubPc \notin {"aborted", "panicked"}

\* Publisher::publish / sender.send(data).await: Closed when the receiver is
\* gone, enqueue when there is room, suspend otherwise.
Submit(m) ==
    /\ prodPc = "idle"
    /\ Len(accepted) < MaxSubmits
    /\ m = Payload(Len(accepted) + 1)
    /\ IF ~ReceiverOpen
       THEN /\ lastSubmit' = "Closed"
            /\ UNCHANGED <<queue, accepted, prodPc, prodMsg>>
       ELSE IF SubmitHasRoom
       THEN /\ queue' = Append(queue, m)
            /\ accepted' = Append(accepted, m)
            /\ lastSubmit' = "Ok"
            /\ UNCHANGED <<prodPc, prodMsg>>
       ELSE /\ prodPc' = "blocked"
            /\ prodMsg' = m
            /\ UNCHANGED <<queue, accepted, lastSubmit>>
    /\ UNCHANGED <<pubAlive, accPc, accCur, streams, pubPc, msg, idx, toRemove,
                   conn, sentHdr, peerClosed, wire, dequeued, due, insertedAt,
                   inserted, failed>>
    /\ UNCHANGED <<passBase, pushedBehind, queueAtDrop, subVars, pkgVars>>

\* The suspended send resumes once the fan-out task has made room.
SubmitResume ==
    /\ prodPc = "blocked"
    /\ ReceiverOpen
    /\ SubmitHasRoom
    /\ queue' = Append(queue, prodMsg)
    /\ accepted' = Append(accepted, prodMsg)
    /\ lastSubmit' = "Ok"
    /\ prodPc' = "idle"
    /\ prodMsg' = <<>>
    /\ UNCHANGED <<pubAlive, accPc, accCur, streams, pubPc, msg, idx, toRemove,
                   conn, sentHdr, peerClosed, wire, dequeued, due, insertedAt,
                   inserted, failed>>
    /\ UNCHANGED <<passBase, pushedBehind, queueAtDrop, subVars, pkgVars>>

\* ---------------------------------------------------- Publication: fan-out
\* receiver.recv().await returns Some(msg_to_publish).
PubRecv ==
    /\ pubPc = "recv"
    /\ queue # <<>>
    /\ msg' = Head(queue)
    /\ queue' = Tail(queue)
    /\ dequeued' = Append(dequeued, Head(queue))
    /\ pubPc' = "lock"
    /\ UNCHANGED <<pubAlive, accPc, accCur, streams, idx, toRemove, prodPc,
                   prodMsg, lastSubmit, conn, sentHdr, peerClosed, wire,
                   accepted, due, insertedAt, inserted, failed>>
    /\ UNCHANGED <<passBase, pushedBehind, queueAtDrop, subVars, pkgVars>>

\* subscriber_streams.write().await: the acceptor never holds the lock across
\* an await, so the lock is free.  With no peer the pass is over at once.
PubLock ==
    /\ pubPc = "lock"
    /\ idx' = 0
    /\ toRemove' = <<>>
    /\ due' = [p \in Peers |-> IF p \in Range(streams) THEN due[p] \o msg ELSE due[p]]
    /\ passBase' = [p \in Peers |-> IF p \in Range(streams) THEN Len(wire[p]) ELSE -1]
    /\ pubPc' = IF streams = <<>> THEN "recv" ELSE "write"
    /\ UNCHANGED <<pubAlive, accPc, accCur, streams, msg, queue, prodPc, prodMsg,
                   lastSubmit, conn, sentHdr, peerClosed, wire, accepted,
                   dequeued, insertedAt, inserted, failed>>
    /\ UNCHANGED <<pushedBehind, queueAtDrop, subVars, pkgVars>>

\* (a removal that does not correct the index for the removals before it)
RECURSIVE RemoveMarkedUncorrected(_, _, _)
RemoveMarkedUncorrected(s, marks, removed_cnt) ==
    IF removed_cnt = Len(marks)
    THEN s
    ELSE RemoveMarkedUncorrected(VecRemove(s, marks[removed_cnt + 1]),
                                 marks, removed_cnt + 1)

\* Every streams.remove(stream_idx - removed_cnt) of the removal, from
\* removed_cnt on, has an index within the Vec; outside it, remove panics
\* (and so does the usize subtraction below zero).
RECURSIVE RemovalInBounds(_, _, _)
RemovalInBounds(s, marks, removed_cnt) ==
    IF removed_cnt = Len(marks)
    THEN TRUE
    ELSE LET i == marks[removed_cnt + 1] - removed_cnt IN
         /\ 0 <= i
         /\ i < Len(s)
         /\ RemovalInBounds(VecRemove(s, i), marks, removed_cnt + 1)

\* streams_to_remove.into_iter().enumerate().for_each(|(removed_cnt,
\* stream_idx)| streams.remove(stream_idx - removed_cnt)), from removed_cnt on.
RECURSIVE RemoveMarked(_, _, _)
RemoveMarked(s, marks, removed_cnt) ==
    IF removed_cnt = Len(marks)
    THEN s
    ELSE RemoveMarked(VecRemove(s, marks[removed_cnt + 1] - removed_cnt),
                      marks, removed_cnt + 1)

\* One iteration of the pass: stream.write(&msg_to_publish).await on the peer
\* at stream_idx; an Err marks the index, an Ok(n) is not looked at.  After
\* the last peer the marked streams are removed and the lock is released; a
\* removal outside the Vec panics the task.
PubWrite ==
    /\ pubPc = "write"
    /\ LET p == streams[idx + 1] IN
       \E n \in WriteResults(msg, peerClosed[p]) :
         LET marks == IF n = 0 THEN Append(toRemove, idx) ELSE toRemove
             kept  == RemoveMarked(streams, marks, 0)
         IN /\ wire' = [wire EXCEPT ![p] = @ \o Take(msg, n)]
            /\ failed' = IF n = 0 THEN failed \cup {p} ELSE failed
            /\ IF idx + 1 = Len(streams) /\ ~RemovalInBounds(streams, marks, 0)
               THEN /\ pubPc' = "panicked"
                    /\ toRemove' = marks
                    /\ UNCHANGED <<streams, conn, idx>>
               ELSE IF idx + 1 = Len(streams)
               THEN /\ streams' = kept
                    /\ conn' = [q \in Peers |->
                                 IF q \in Range(streams) \ Range(kept)
                                 THEN "removed" ELSE conn[q]]
                    /\ pubPc' = "recv"
                    /\ idx' = 0
                    /\ toRemove' = <<>>
               ELSE /\ idx' = idx + 1
                    /\ toRemove' = marks
                    /\ UNCHANGED <<streams, conn, pubPc>>
    /\ UNCHANGED <<pubAlive, accPc, accCur, msg, queue, prodPc, prodMsg,
                   lastSubmit, sentHdr, peerClosed, accepted, dequeued, due,
                   insertedAt, inserted>>
    /\ pushedBehind' = [pushedBehind EXCEPT ![streams[idx + 1]] = FALSE]
    /\ UNCHANGED <<passBase, queueAtDrop, subVars, pkgVars>>

\* ------------------------------------------------------ Publication: drop
\* Dropping the Publication drops its two ChildTasks, which calls abort() on
\* each task.  abort() only requests the cancellation: a task that is suspended
\* is dropped when the runtime next schedules it, a task that is being polled
\* on another worker runs on to its next suspension.  The listener, the
\* receiver and the streams belong to the tasks and live until these are
\* dropped; the Publication's own sender goes at once, the clones held by
\* Publishers stay.
PubDrop ==
    /\ pubAlive
    /\ pubAlive' = FALSE
    /\ queueAtDrop' = queue
    /\ UNCHANGED <<accPc, accCur, streams, pubPc, msg, idx, toRemove, queue,
                   prodPc, prodMsg, lastSubmit, conn, sentHdr, peerClosed, wire,
                   accepted, dequeued, due, insertedAt, inserted, failed>>
    /\ UNCHANGED <<passBase, pushedBehind, subVars, pkgVars>>

\* The acceptor task is dropped: the listener closes (and with it the
\* connections not yet accepted) and so does the stream in its hands.  The
\* peer set is shared by the two tasks and goes with the last of them.
AccCancel ==
    /\ ~pubAlive
    /\ accPc \notin {"aborted", "panicked"}
    /\ accPc' = "aborted"
    /\ accCur' = 0
    /\ LET gone == {q \in Peers : conn[q] \in {"pending", "handshake"}}
                      \cup (IF ReceiverOpen THEN {} ELSE Range(streams))
       IN conn' = CloseConns(conn, gone)
    /\ streams' = IF ReceiverOpen THEN streams ELSE <<>>
    /\ UNCHANGED <<pubAlive, pubPc, msg, idx, toRemove, queue, prodPc, prodMsg,
                   lastSubmit, sentHdr, peerClosed, wire, accepted, dequeued,
                   due, insertedAt, inserted, failed>>
    /\ UNCHANGED <<passBase, pushedBehind, queueAtDrop, subVars, pkgVars>>

\* The fan-out task is dropped: the receiver goes with the payloads still
\* queued, a suspended send returns Closed, a pass under way is abandoned and
\* its lock released.
PubCancel ==
    /\ ~pubAlive
    /\ ReceiverOpen
    /\ pubPc' = "aborted"
    /\ queue' = <<>>
    /\ msg' = <<>>
    /\ idx' = 0
    /\ toRemove' = <<>>
    /\ prodPc' = "idle"
    /\ prodMsg' = <<>>
    /\ lastSubmit' = IF prodPc = "blocked" THEN "Closed" ELSE lastSubmit
    /\ conn' = IF ListenerOpen THEN conn ELSE CloseConns(conn, Range(streams))
    /\ streams' = IF ListenerOpen THEN streams ELSE <<>>
    /\ UNCHANGED <<pubAlive, accPc, accCur, sentHdr, peerClosed, wire, accepted,
                   dequeued, due, insertedAt, inserted, failed>>
    /\ UNCHANGED <<passBase, pushedBehind, queueAtDrop, subVars, pkgVars>>

\* The steps of a Publication that is not dropped.
NextPubAlive ==
    \/ \E p \in Peers, h \in HeaderInputs : PeerConnect(p, h)
    \/ \E p \in Peers : PeerClose(p)
    \/ \E p \in Peers : AccAccept(p)
    \/ AccRead
    \/ AccRespond
    \/ AccPush
    \/ \E m \in {Payload(k) : k \in 1..MaxSubmits} : Submit(m)
    \/ SubmitResume
    \/ PubRecv
    \/ PubLock
    \/ PubWrite

NextPub ==
    \/ \E p \in Peers, h \in HeaderInputs : PeerConnect(p, h)
    \/ \E p \in Peers : PeerClose(p)
    \/ \E p \in Peers : AccAccept(p)
    \/ AccRead
    \/ AccRespond
    \/ AccPush
    \/ \E m \in {Payload(k) : k \in 1..MaxSubmits} : Submit(m)
    \/ SubmitResume
    \/ PubRecv
    \/ PubLock
    \/ PubWrite
    \/ PubDrop
    \/ AccCancel
    \/ PubCancel

\* ============================================================ Subscription
InitSub ==
    /\ subAlive = TRUE
    /\ known = <<>>
    /\ tasks = <<>>
    /\ calls = <<>>
    /\ bcast = <<>>
    /\ nReads = 0
    /\ cons = [c \in Consumers |-> [st |-> "none", pos |-> 0]]

\* A reader task as tokio::spawn creates it: about to call
\* establish_publisher_connection.
NewTask(u) ==
    [uri |-> u, pc |-> "rpc", err |-> "none", proto |-> "none",
     dialed |-> FALSE, resp |-> <<>>, pushed |-> FALSE, endSeen |-> FALSE,
     buf |-> <<>>, rcvd |-> <<>>]

\* (a check that finds every URI new)
IsNewConnectionAlways(u) == TRUE

\* known_publishers.read().await.iter().find(..).is_none()
IsNewConnection(u) == u \notin Range(known)

\* Subscription::add_publisher_source: spawn a reader task unless the URI is
\* known, and return Ok(()) in both cases.
AddPublisherSource(u) ==
    /\ subAlive
    /\ Len(calls) < MaxCalls
    /\ IF IsNewConnection(u)
       THEN /\ tasks' = Append(tasks, NewTask(u))
            /\ calls' = Append(calls, [uri |-> u, ret |-> "Ok", task |-> Len(tasks) + 1])
       ELSE /\ tasks' = tasks
            /\ calls' = Append(calls, [uri |-> u, ret |-> "Ok", task |-> 0])
    /\ UNCHANGED <<subAlive, known, bcast, nReads, cons>>
    /\ UNCHANGED <<pubVars, pkgVars>>

\* What the publisher's XMLRPC server may answer to requestTopic.
RpcResponses ==
    {[sent |-> FALSE, success |-> FALSE, parsed |-> FALSE, protocol |-> "none"],
     [sent |-> TRUE,  success |-> FALSE, parsed |-> FALSE, protocol |-> "none"],
     [sent |-> TRUE,  success |-> TRUE,  parsed |-> FALSE, protocol |-> "none"],
     [sent |-> TRUE,  success |-> TRUE,  parsed |-> TRUE,  protocol |-> "UDPROS"],
     [sent |-> TRUE,  success |-> TRUE,  parsed |-> TRUE,  protocol |-> "TCPROS"]}

\* (a request that takes whatever protocol the response names)
SendTopicRequestAnyProtocol(r) ==
    IF ~r.sent THEN "ConnectionAborted"
    ELSE IF ~r.success THEN "ConnectionRefused"
    ELSE IF ~r.parsed THEN "InvalidData"
    ELSE "Ok"

\* send_topic_request: the std::io::ErrorKind it returns, or "Ok".
SendTopicRequest(r) ==
    IF ~r.sent THEN "ConnectionAborted"
    ELSE IF ~r.success THEN "ConnectionRefused"
    ELSE IF ~r.parsed THEN "InvalidData"
    ELSE IF r.protocol = "TCPROS" THEN "Ok"
    ELSE "Unsupported"

\* The task ends: establish_publisher_connection returned Err(kind), which
\* the task's `if let Ok` swallows.
Fail(t, kind) == [tasks EXCEPT ![t].pc = "done", ![t].err = kind]

\* send_topic_request(..).await?  proto remembers the protocol the response
\* named.
TaskRpc(t) ==
    /\ tasks[t].pc = "rpc"
    /\ \E r \in RpcResponses :
         tasks' = IF SendTopicRequest(r) = "Ok"
                  THEN [tasks EXCEPT ![t].pc = "dial", ![t].proto = r.protocol]
                  ELSE [Fail(t, SendTopicRequest(r)) EXCEPT ![t].proto = r.protocol]
    /\ UNCHANGED <<subAlive, known, calls, bcast, nReads, cons>>
    /\ UNCHANGED <<pubVars, pkgVars>>

\* TcpStream::connect(publisher_channel_uri).await?
TaskDial(t) ==
    /\ tasks[t].pc = "dial"
    /\ \E ok \in BOOLEAN :
         tasks' = IF ok
                  THEN [tasks EXCEPT ![t].pc = "write", ![t].dialed = TRUE]
                  ELSE [tasks EXCEPT ![t].pc = "done", ![t].err = "Io",
                                     ![t].dialed = TRUE]
    /\ UNCHANGED <<subAlive, known, calls, bcast, nReads, cons>>
    /\ UNCHANGED <<pubVars, pkgVars>>

\* stream.write_all(&conn_header_bytes).await?
TaskWriteHeader(t) ==
    /\ tasks[t].pc = "write"
    /\ \E ok \in BOOLEAN :
         tasks' = IF ok THEN [tasks EXCEPT ![t].pc = "readhdr"] ELSE Fail(t, "Io")
    /\ UNCHANGED <<subAlive, known, calls, bcast, nReads, cons>>
    /\ UNCHANGED <<pubVars, pkgVars>>

\* (a subscriber that takes any response header that decodes)
RespMd5MatchesAny(hdr) == TRUE

\* conn_header.md5sum == responded_header.md5sum
RespMd5Matches(hdr) == hdr.md5sum = OurMd5

\* The response read (one read_buf), its decoding and the md5 comparison: a
\* read error is an Io error, an undecodable header and a mismatch are
\* InvalidData, a match returns the stream.
TaskReadHeader(t) ==
    /\ tasks[t].pc = "readhdr"
    /\ \/ tasks' = Fail(t, "Io")
       \/ \E b \in HeaderInputs :
            tasks' = IF FromBytes(b).ok /\ RespMd5Matches(FromBytes(b))
                     THEN [tasks EXCEPT ![t].pc = "push", ![t].resp = b]
                     ELSE [tasks EXCEPT ![t].pc = "done", ![t].resp = b,
                                        ![t].err = "InvalidData"]
    /\ UNCHANGED <<subAlive, known, calls, bcast, nReads, cons>>
    /\ UNCHANGED <<pubVars, pkgVars>>

\* publisher_list.write().await.push(publisher_uri)
TaskPush(t) ==
    /\ tasks[t].pc = "push"
    /\ known' = Append(known, tasks[t].uri)
    /\ tasks' = [tasks EXCEPT ![t].pc = "loop", ![t].pushed = TRUE]
    /\ UNCHANGED <<subAlive, calls, bcast, nReads, cons>>
    /\ UNCHANGED <<pubVars, pkgVars>>

\* The broadcast channel has a receiver: the Subscription's own _msg_receiver
\* or a consumer handed out by get_receiver.
HasReceivers == subAlive \/ \E c \in Consumers : cons[c].st # "none"

\* (a reader that does not clear its buffer)
ReadBufferKept(b) == b

\* read_buffer.clear()
ReadBufferCleared(b) == <<>>

\* One iteration of the read loop.  read_buf returns Err, Ok(0) or the number
\* of bytes it appended to read_buffer.  Ok(0) breaks; Ok(n) sends
\* read_buffer[..n] as one broadcast payload and clears the buffer, or breaks
\* if the channel has no receiver left; Err is logged and the loop goes on.
TaskRead(t) ==
    /\ tasks[t].pc = "loop"
    /\ nReads < MaxReads
    /\ nReads' = nReads + 1
    /\ \/ /\ tasks' = [tasks EXCEPT ![t].endSeen = TRUE]
          /\ bcast' = bcast
       \/ /\ tasks' = [tasks EXCEPT ![t].pc = "done", ![t].endSeen = TRUE]
          /\ bcast' = bcast
       \/ \E b \in Chunks :
            LET filled == tasks[t].buf \o b
                bytes_read == Len(b)
            IN IF HasReceivers
               THEN /\ bcast' = Append(bcast, [src |-> t, data |-> Take(filled, bytes_read)])
                    /\ tasks' = [tasks EXCEPT ![t].buf = ReadBufferCleared(filled),
                                              ![t].rcvd = @ \o b]
               ELSE /\ bcast' = bcast
                    /\ tasks' = [tasks EXCEPT ![t].pc = "done", ![t].buf = filled,
                                              ![t].rcvd = @ \o b]
    /\ UNCHANGED <<subAlive, known, calls, cons>>
    /\ UNCHANGED <<pubVars, pkgVars>>

\* Dropping the Subscription drops the ChildTasks in subscription_tasks, which
\* calls abort() on each reader task, then its receiver and its sender.  As
\* for the Publication, a task that is being polled runs on to its next
\* suspension before it is dropped.
SubDrop ==
    /\ subAlive
    /\ subAlive' = FALSE
    /\ UNCHANGED <<known, tasks, calls, bcast, nReads, cons>>
    /\ UNCHANGED <<pubVars, pkgVars>>

\* An aborted reader task is dropped: its stream closes and its clone of the
\* broadcast sender goes.
TaskCancel(t) ==
    /\ ~subAlive
    /\ t \in 1..Len(tasks)
    /\ tasks[t].pc \notin {"done", "aborted"}
    /\ tasks' = [tasks EXCEPT ![t].pc = "aborted"]
    /\ UNCHANGED <<subAlive, known, calls, bcast, nReads, cons>>
    /\ UNCHANGED <<pubVars, pkgVars>>

\* ---------------------------------------------- Subscription: consumers
\* The broadcast channel has a sender: the Subscription's msg_sender or the
\* clone moved into a reader task that has not ended.
HasSenders ==
    subAlive \/ \E t \in 1..Len(tasks) : tasks[t].pc \notin {"done", "aborted"}

\* Subscription::get_receiver: a consumer that sees the payloads sent from
\* now on.  Consumers are numbered in the order they are handed out.
GetReceiver(c) ==
    /\ subAlive
    /\ cons[c].st = "none"
    /\ \A d \in Consumers : d < c => cons[d].st # "none"
    /\ cons' = [cons EXCEPT ![c] = [st |-> "open", pos |-> Len(bcast)]]
    /\ UNCHANGED <<subAlive, known, tasks, calls, bcast, nReads>>
    /\ UNCHANGED <<pubVars, pkgVars>>

\* Subscriber::next / receiver.recv(): the next retained payload; Lagged,
\* skipping to the oldest retained payload, when the consumer fell more than
\* the channel's capacity behind; Closed once every sender is gone and nothing
\* is left to read; otherwise the call waits.
ConsumerNext(c) ==
    /\ cons[c].st = "open"
    /\ IF cons[c].pos < Len(bcast)
       THEN cons' = [cons EXCEPT ![c].pos =
                        IF Len(bcast) - @ > BcastSize
                        THEN Len(bcast) - BcastSize ELSE @ + 1]
       ELSE /\ ~HasSenders
            /\ cons' = [cons EXCEPT ![c].st = "closed"]
    /\ UNCHANGED <<subAlive, known, tasks, calls, bcast, nReads>>
    /\ UNCHANGED <<pubVars, pkgVars>>

\* The steps of a Subscription that is not dropped and has handed out no
\* consumer.
NextSubAlive ==
    \/ \E u \in Uris : AddPublisherSource(u)
    \/ \E t \in 1..Len(tasks) : TaskRpc(t)
    \/ \E t \in 1..Len(tasks) : TaskDial(t)
    \/ \E t \in 1..Len(tasks) : TaskWriteHeader(t)
    \/ \E t \in 1..Len(tasks) : TaskReadHeader(t)
    \/ \E t \in 1..Len(tasks) : TaskPush(t)
    \/ \E t \in 1..Len(tasks) : TaskRead(t)

NextSub ==
    \/ \E u \in Uris : AddPublisherSource(u)
    \/ \E t \in 1..Len(tasks) : TaskRpc(t)
    \/ \E t \in 1..Len(tasks) : TaskDial(t)
    \/ \E t \in 1..Len(tasks) : TaskWriteHeader(t)
    \/ \E t \in 1..Len(tasks) : TaskReadHeader(t)
    \/ \E t \in 1..Len(tasks) : TaskPush(t)
    \/ \E t \in 1..Len(tasks) : TaskRead(t)
    \/ SubDrop
    \/ \E t \in 1..Len(tasks) : TaskCancel(t)
    \/ \E c \in Consumers : GetReceiver(c)
    \/ \E c \in Consumers : ConsumerNext(c)

\* ------------------------------------------------- deduplicate_packages
\* Package names are strings, here sequences of symbols; the second one is
\* the first followed by "_1".
PkgNames == {<<"a">>, <<"a", "_", "1">>}

\* Option<RosVersion>
PkgVersions == {"ROS1", "ROS2", "None"}

\* The argument lists: up to MaxPkgs packages, each found at a path of its
\* own (its position in the list).
PkgInputs ==
    UNION {{[i \in 1..n |-> [name |-> f[i][1], version |-> f[i][2], path |-> i]] :
               f \in [1..n -> PkgNames \X PkgVersions]} : n \in 0..MaxPkgs}

\* impl PartialEq for Package: the path is not compared.
PkgEq(a, b) == a.name = b.name /\ a.version = b.version

\* (a key made of the name alone)
PackageNameOnly(pkg) == pkg.name

\* package_name_fmt: format!("{}_{}", name, "1" | "2" | "unknown")
PackageNameFmt(pkg) ==
    pkg.name \o <<"_">> \o
        (IF pkg.version = "ROS1" THEN <<"1">>
         ELSE IF pkg.version = "ROS2" THEN <<"2">>
         ELSE <<"unknown">>)

\* HashMap::insert: a value already stored under the key is replaced.
MapInsert(m, k, v) == [x \in DOMAIN m \cup {k} |-> IF x = k THEN v ELSE m[x]]

\* The empty HashMap.
EmptyMap == [x \in {} |-> 0]

InitPkgIdle ==
    /\ pkgPc = "idle"
    /\ packages = <<>>
    /\ pkgIdx = 0
    /\ package_map = EmptyMap
    /\ deduplicated = <<>>

\* deduplicate_packages is entered with some argument and an empty map.
InitPkg ==
    /\ pkgPc = "loop"
    /\ packages \in PkgInputs
    /\ pkgIdx = 0
    /\ package_map = EmptyMap
    /\ deduplicated = <<>>

\* One iteration of `for package in packages`: the map is looked up under the
\* package's name; a stored package that is equal makes the iteration a
\* warning only, anything else inserts under package_name_fmt.
DedupStep ==
    /\ pkgPc = "loop"
    /\ pkgIdx < Len(packages)
    /\ LET package == packages[pkgIdx + 1] IN
       package_map' =
           IF package.name \in DOMAIN package_map
              /\ PkgEq(package, package_map[package.name])
           THEN package_map
           ELSE MapInsert(package_map, PackageNameFmt(package), package)
    /\ pkgIdx' = pkgIdx + 1
    /\ UNCHANGED <<pkgPc, packages, deduplicated>>
    /\ UNCHANGED <<pubVars, subVars>>

\* The loop is over.
DedupLoopEnd ==
    /\ pkgPc = "loop"
    /\ pkgIdx = Len(packages)
    /\ pkgPc' = "collect"
    /\ UNCHANGED <<packages, pkgIdx, package_map, deduplicated>>
    /\ UNCHANGED <<pubVars, subVars>>

\* package_map.into_values().collect(): the values, in an order the HashMap
\* chooses.
DedupCollect ==
    /\ pkgPc = "collect"
    /\ \E order \in [1..Cardinality(DOMAIN package_map) -> DOMAIN package_map] :
         /\ \A i, j \in DOMAIN order : order[i] = order[j] => i = j
         /\ deduplicated' = [i \in DOMAIN order |-> package_map[order[i]]]
    /\ pkgPc' = "done"
    /\ UNCHANGED <<packages, pkgIdx, package_map>>
    /\ UNCHANGED <<pubVars, subVars>>

NextDedup ==
    \/ DedupStep
    \/ DedupLoopEnd
    \/ DedupCollect

Init == InitPub /\ InitSub /\ InitPkgIdle

InitDedup == InitPub /\ InitSub /\ InitPkg

SpecDedup == InitDedup /\ [][NextDedup]_vars

SpecPub == Init /\ [][NextPub]_vars

SpecPubAlive == Init /\ [][NextPubAlive]_vars

\* The fan-out task is scheduled, and its peer writes complete.
SpecPubFair ==
    /\ Init
    /\ [][NextPub]_vars
    /\ WF_vars(PubRecv)
    /\ WF_vars(PubLock)
    /\ WF_vars(PubWrite)
    /\ WF_vars(SubmitResume)

\* Every task of the Publication is scheduled: the acceptor and the fan-out
\* task take the steps that are ready, and an aborted task is dropped.
SpecPubLive ==
    /\ Init
    /\ [][NextPub]_vars
    /\ WF_vars(\E p \in Peers : AccAccept(p))
    /\ WF_vars(AccRead)
    /\ WF_vars(AccRespond)
    /\ WF_vars(AccPush)
    /\ WF_vars(PubRecv)
    /\ WF_vars(PubLock)
    /\ WF_vars(PubWrite)
    /\ WF_vars(SubmitResume)
    /\ WF_vars(AccCancel)
    /\ WF_vars(PubCancel)

SpecSub == Init /\ [][NextSub]_vars

SpecSubAlive == Init /\ [][NextSubAlive]_vars

\* An aborted reader task is dropped, and a consumer keeps calling next.
SpecSubLive ==
    /\ Init
    /\ [][NextSub]_vars
    /\ \A t \in 1..MaxCalls : WF_vars(TaskCancel(t))
    /\ \A c \in Consumers : WF_vars(ConsumerNext(c))

\* ================================================================ claims
\* The payload bytes written to p since it was pushed into the peer set.
DataWritten(p) == DropN(wire[p], insertedAt[p])

\* The header bytes p sent decode to a header carrying the Publication's md5sum.
SentMatchingHeader(p) ==
    FromBytes(sentHdr[p]).ok /\ FromBytes(sentHdr[p]).md5sum = OurMd5

\* C1: while the Publication is alive its acceptor task has neither
\* terminated nor panicked, whatever the connecting peers did.
C1_AcceptorNeverDies ==
    pubAlive => accPc \in {"accept", "read", "respond", "lock"}

\* C2: a peer whose header does not decode, or decodes to another md5sum, is
\* never written a byte (neither a response header nor a payload) and is
\* never in the peer set.
C2_MismatchNeverServed ==
    \A p \in Peers :
        ~SentMatchingHeader(p) =>
            /\ wire[p] = <<>>
            /\ p \notin Range(streams)
            /\ p \notin inserted

\* C2 witness: a peer that sent another md5sum has been turned away and a
\* payload has since been fanned out to a member.
C2_Witness ==
    \E p, q \in Peers :
        /\ sentHdr[p] = ToBytes(OtherMd5)
        /\ conn[p] = "rejected"
        /\ conn[q] = "member"
        /\ DataWritten(q) # <<>>
        /\ Len(dequeued) >= 1

\* C4: between passes, the bytes written to each peer of the set since its
\* insertion are the whole payloads of the passes run while it was in the
\* set, concatenated in order.
C4_WholePayloadsInOrder ==
    (pubAlive /\ pubPc # "write") =>
        \A p \in Range(streams) : DataWritten(p) = due[p]

\* C5: the queue never holds more than queue_size payloads; a suspended
\* submit completes only once there is room; while the Publication is alive
\* the payloads submitted with Ok are exactly those dequeued followed by those
\* still queued, in order; and each of them is eventually dequeued unless the
\* Publication is dropped.
C5_QueueInv ==
    /\ Len(queue) <= QueueSize
    /\ pubAlive => accepted = dequeued \o queue

C5_ResumeStep ==
    (prodPc = "blocked" /\ prodPc' = "idle" /\ pubAlive') =>
        /\ Len(queue) < QueueSize
        /\ queue' = Append(queue, prodMsg)

C6_FailureIsolation ==
    (pubAlive /\ pubPc = "recv" /\ failed # {}) =>
        /\ Range(streams) = inserted \ failed
        /\ \A b \in Range(streams) :
               passBase[b] >= 0 => DropN(wire[b], passBase[b]) = msg

\* The response header task t read decodes to a header carrying the
\* Subscription's md5sum.
ReadMatchingResponse(t) ==
    FromBytes(tasks[t].resp).ok /\ FromBytes(tasks[t].resp).md5sum = OurMd5

\* The broadcast payloads task t sent.
SentBy(t) == SelectSeq(bcast, LAMBDA e : e.src = t)

\* The reader tasks for u that are dialing, handshaking or reading.
ActiveReaders(u) ==
    {t \in 1..Len(tasks) :
        tasks[t].uri = u
        /\ tasks[t].pc \in {"rpc", "dial", "write", "readhdr", "push", "loop"}}

\* C3: a reader task that did not read a response header carrying the
\* Subscription's md5sum (another md5sum, an undecodable header, no header)
\* has sent nothing into the broadcast queue and has not recorded its URI.
C3_MismatchNeverDelivers ==
    \A t \in 1..Len(tasks) :
        ~ReadMatchingResponse(t) =>
            /\ SentBy(t) = <<>>
            /\ ~tasks[t].pushed
            /\ tasks[t].pc \notin {"push", "loop"}

\* C3 witness: a reader has ended on a response with another md5sum while
\* another reader has delivered a payload.
C3_Witness ==
    \E t, o \in 1..Len(tasks) :
        /\ tasks[t].resp = ToBytes(OtherMd5)
        /\ tasks[t].pc = "done"
        /\ tasks[t].err = "InvalidData"
        /\ o # t
        /\ SentBy(o) # <<>>

\* C7: for every publisher URI at most one reader task is dialing,
\* handshaking or reading.
C7_OneReaderPerUri ==
    \A u \in Uris : Cardinality(ActiveReaders(u)) <= 1

\* C8: add_publisher_source returned Ok only if the URI was already known or
\* the connection attempt it started did not fail; a failed attempt (RPC,
\* handshake, socket) is returned to the caller as an error.
C8_ErrorsSurface ==
    \A i \in 1..Len(calls) :
        (calls[i].task # 0 /\ tasks[calls[i].task].err # "none") =>
            calls[i].ret \in {"RpcError", "HandshakeError", "IoError"}

\* C9: a reader that has seen a zero-byte read or a read error in its read
\* loop has terminated: it reads and sends no more.
C9_EndOfStreamTerminates ==
    \A t \in 1..Len(tasks) : tasks[t].endSeen => tasks[t].pc = "done"

\* C10: every known URI was recorded by a reader whose RPC, dial and
\* handshake succeeded, and when an attempt for u fails the set does not
\* contain u (so that the next add_publisher_source(u) finds it new).
C10_KnownFromSuccess ==
    \A i \in 1..Len(known) :
        \E t \in 1..Len(tasks) :
            /\ tasks[t].uri = known[i]
            /\ tasks[t].pushed
            /\ tasks[t].dialed
            /\ ReadMatchingResponse(t)

C10_FailureStep ==
    \A t \in 1..Len(tasks) :
        (tasks[t].err = "none" /\ tasks'[t].err # "none") =>
            tasks[t].uri \notin Range(known')

C10_KnownOnlyAfterSuccess ==
    /\ []C10_KnownFromSuccess
    /\ [][C10_FailureStep]_vars

\* C11: a reader whose requestTopic response named a protocol other than
\* TCPROS has ended with Unsupported, has never dialed, has sent nothing into
\* the broadcast queue and has not recorded its URI; the step in which it
\* ends leaves the known-publisher list as it was.
C11_UnsupportedInv ==
    \A t \in 1..Len(tasks) :
        tasks[t].proto \notin {"none", "TCPROS"} =>
            /\ tasks[t].pc = "done"
            /\ tasks[t].err = "Unsupported"
            /\ ~tasks[t].dialed
            /\ SentBy(t) = <<>>
            /\ ~tasks[t].pushed

C11_UnsupportedStep ==
    \A t \in 1..Len(tasks) :
        (tasks[t].err = "none" /\ tasks'[t].err = "Unsupported") =>
            /\ known' = known
            /\ bcast' = bcast

C11_UnsupportedEndsTask ==
    /\ []C11_UnsupportedInv
    /\ [][C11_UnsupportedStep]_vars

\* C11 witness: a reader was answered UDPROS and has ended, while another
\* reader has dialed.
C11_Witness ==
    \E t, o \in 1..Len(tasks) :
        /\ tasks[t].proto = "UDPROS"
        /\ tasks[t].pc = "done"
        /\ tasks[o].dialed

\* C12: while the Publication has not been dropped the fan-out task, and the
\* receiving end of the queue with it, is alive and no submit has returned
\* Closed, whatever the peers did.
C12_NeverClosedWhileAlive ==
    pubAlive =>
        /\ pubPc \notin {"aborted", "panicked"}
        /\ lastSubmit # "Closed"

\* C12 witness: every peer ever inserted has failed in the first pass, the
\* set is empty, and a later payload was submitted with Ok and fanned out to
\* no peer.
C12_Witness ==
    /\ pubAlive
    /\ inserted # {}
    /\ failed = inserted
    /\ streams = <<>>
    /\ lastSubmit = "Ok"
    /\ Len(dequeued) = MaxSubmits
    /\ pubPc = "recv"
    /\ \A p \in inserted : due[p] = Payload(1)

\* C13: a peer is written no byte of a payload that had been submitted (was
\* queued, or dequeued and not yet fanned out) when the peer was pushed into
\* the peer set.  The queue is FIFO, so the first pass to reach a peer pushed
\* behind such a payload fans out the oldest of them.
C13_OnlyLaterPayloads ==
    [][\A p \in Peers :
          (pubPc = "write" /\ pushedBehind[p]) => wire'[p] = wire[p]]_vars

\* Every peer socket is closed on the Publication's side.
AllPeersClosed ==
    /\ streams = <<>>
    /\ \A p \in Peers : conn[p] \notin {"pending", "handshake", "member"}

\* C14: once the Publication is dropped, eventually both tasks are gone, the
\* listener is closed and every peer stream is closed; and no payload that
\* was in the queue at the drop is written to a peer.
C14_NoQueuedWrite ==
    ~pubAlive =>
        \A p \in Peers : \A i \in 1..Len(queueAtDrop) :
            queueAtDrop[i][1] \notin Range(wire[p])

C14_DropClosesAll ==
    /\ (~pubAlive) ~> (~ListenerOpen /\ ~ReceiverOpen /\ AllPeersClosed)
    /\ []C14_NoQueuedWrite

\* C16: a client that has connected with a header carrying the Publication's
\* md5sum is eventually pushed into the peer set (unless it hangs up or the
\* Publication is dropped), and a peer in the set was written the whole
\* response header before it was pushed.
C16_HeaderBeforePush ==
    \A p \in inserted : Take(wire[p], insertedAt[p]) = ToBytes(OurMd5)

C16_MatchingClientServed ==
    /\ \A p \in Peers :
           (conn[p] = "pending" /\ SentMatchingHeader(p))
               ~> (p \in inserted \/ peerClosed[p] \/ ~pubAlive)
    /\ []C16_HeaderBeforePush

\* The elements of s that are not in F, in their order in s.
Surviving(s, F) == SelectSeq(s, LAMBDA q : q \notin F)

\* C19: the removal never panics; the step that ends a pass leaves in the
\* set exactly the peers of the pass whose write did not fail, in their
\* order; the other steps of a pass leave the set alone.
C19_NoRemovalPanic == pubPc # "panicked"

C19_PassStep ==
    /\ (pubPc = "write" /\ pubPc' = "recv") =>
           streams' = Surviving(streams, failed')
    /\ (pubPc = "write" /\ pubPc' = "write") => streams' = streams

C19_RemovalExact ==
    /\ []C19_NoRemovalPanic
    /\ [][C19_PassStep]_vars

\* C19 witness: a pass over two peers has ended with both writes failed, so
\* that the second removal used a corrected index.
C19_Witness ==
    /\ pubPc = "recv"
    /\ Len(dequeued) = 1
    /\ Cardinality(failed) >= 2
    /\ streams = <<>>

\* Every reader task has ended or has been dropped.
AllReadersGone ==
    \A t \in 1..Len(tasks) : tasks[t].pc \in {"done", "aborted"}

\* C15: once the Subscription is dropped no payload is sent into the
\* broadcast queue any more, eventually every reader task is gone (its stream
\* closed), and every consumer that keeps reading eventually observes Closed.
C15_NoSendAfterDrop == ~subAlive => bcast' = bcast

C15_DropEndsReaders ==
    /\ [][C15_NoSendAfterDrop]_vars
    /\ (~subAlive) ~> AllReadersGone
    /\ \A c \in Consumers :
           (~subAlive /\ cons[c].st = "open") ~> (cons[c].st = "closed")

\* C17: a call of add_publisher_source for a URI that is in the known list
\* returns Ok and leaves the task list, the known list and the broadcast
\* queue as they were (no task, hence no RPC and no dial).
C17_KnownStep ==
    (Len(calls') = Len(calls) + 1
       /\ calls'[Len(calls')].uri \in Range(known)) =>
        /\ calls'[Len(calls')].ret = "Ok"
        /\ calls'[Len(calls')].task = 0
        /\ tasks' = tasks
        /\ known' = known
        /\ bcast' = bcast

C17_KnownUriNoWork == [][C17_KnownStep]_vars

\* C17 witness: a call was made for a URI already recorded by a reader that
\* is in its read loop, and returned without a task.
C17_Witness ==
    \E i \in 1..Len(calls) :
        /\ calls[i].task = 0
        /\ calls[i].uri \in Range(known)
        /\ \E t \in 1..Len(tasks) :
               tasks[t].uri = calls[i].uri /\ tasks[t].pushed

\* The bytes of the payloads in a sequence of broadcast entries, in order.
RECURSIVE Concat(_)
Concat(es) == IF es = <<>> THEN <<>> ELSE Head(es).data \o Concat(Tail(es))

\* C20: while the broadcast channel has a receiver, every read that returns
\* bytes sends exactly those bytes as one payload, so that the payloads sent
\* by a reader, concatenated in order, are the bytes it has read, and nothing
\* stays in its buffer.
C20_StreamInv ==
    HasReceivers =>
        \A t \in 1..Len(tasks) :
            /\ Concat(SentBy(t)) = tasks[t].rcvd
            /\ tasks[t].buf = <<>>

C20_ReadStep ==
    \A t \in 1..Len(tasks) :
        (HasReceivers /\ tasks'[t].rcvd # tasks[t].rcvd) =>
            bcast' = Append(bcast,
                            [src |-> t,
                             data |-> DropN(tasks'[t].rcvd, Len(tasks[t].rcvd))])

C20_OnePayloadPerRead ==
    /\ []C20_StreamInv
    /\ [][C20_ReadStep]_vars

\* C20 witness: one reader has sent two payloads from two reads of different
\* lengths.
C20_Witness ==
    \E t \in 1..Len(tasks) :
        /\ Len(SentBy(t)) = 2
        /\ Len(SentBy(t)[1].data) # Len(SentBy(t)[2].data)
        /\ Concat(SentBy(t)) = tasks[t].rcvd

\* The (name, version) pairs of the packages in a list.
NameVersions(ps) == {<<ps[i].name, ps[i].version>> : i \in 1..Len(ps)}

\* C18: the returned list holds, for every (name, version) pair of the
\* argument, exactly one package, which is one of the argument's packages
\* with that pair, and nothing else.
C18_OnePerNameVersion ==
    pkgPc = "done" =>
        /\ \A nv \in NameVersions(packages) :
               Cardinality({j \in 1..Len(deduplicated) :
                               <<deduplicated[j].name, deduplicated[j].version>> = nv}) = 1
        /\ \A j \in 1..Len(deduplicated) :
               \E i \in 1..Len(packages) : deduplicated[j] = packages[i]
        /\ Len(deduplicated) = Cardinality(NameVersions(packages))

\* C18 witness: the test's argument (four packages, the third equal to the
\* first, the fourth with the second's name and another version) gave three.
C18_Witness ==
    /\ pkgPc = "done"
    /\ Len(packages) = 4
    /\ PkgEq(packages[3], packages[1])
    /\ packages[2].name # packages[1].name
    /\ packages[4].name = packages[2].name
    /\ packages[4].version # packages[2].version
    /\ Len(deduplicated) = 3

\* The position in the argument of the first package equal to d.
FirstEqual(d) ==
    CHOOSE i \in 1..Len(packages) :
        /\ PkgEq(packages[i], d)
        /\ \A j \in 1..(i - 1) : ~PkgEq(packages[j], d)

\* C21: of the packages of the argument equal in name and version, the one
\* returned is the first of them in the argument (the one at the first
\* discovered path).
C21_FirstPathKept ==
    pkgPc = "done" =>
        \A j \in 1..Len(deduplicated) :
            deduplicated[j].path = packages[FirstEqual(deduplicated[j])].path

\* The acceptor awaits the header of a peer that has sent no byte and has
\* not hung up.
AwaitsSilentPeer ==
    /\ accPc = "read"
    /\ sentHdr[accCur] = <<>>
    /\ ~peerClosed[accCur]

\* C22: the acceptor is in at most one handshake, that of the stream it
\* accepted last, and accepts the next connection only once that handshake
\* is over; while it awaits the header of a peer that has sent no byte no
\* other connection is accepted and none is pushed into the peer set (the
\* acceptor stays in that read unless the Publication's drop aborts it).
C22_HandshakeInv ==
    /\ \A p \in Peers : conn[p] = "handshake" <=> accCur = p
    /\ accCur # 0 <=> accPc \in {"read", "respond", "lock"}

C22_SilentStep ==
    AwaitsSilentPeer =>
        /\ \/ accPc' = "read" /\ accCur' = accCur
           \/ accPc' = "aborted" /\ ~pubAlive
        /\ \A q \in Peers : conn'[q] = "handshake" => q = accCur
        /\ inserted' = inserted
        /\ \A q \in Peers : q \notin Range(streams) => q \notin Range(streams')

C22_OneHandshakeAtATime ==
    /\ []C22_HandshakeInv
    /\ [][C22_SilentStep]_vars

\* C22 witness: the acceptor awaits the header of a silent peer while a
\* later client, which has sent a matching header, is still pending.
C22_Witness ==
    /\ AwaitsSilentPeer
    /\ \E q \in Peers :
           /\ q # accCur
           /\ conn[q] = "pending"
           /\ SentMatchingHeader(q)
           /\ ~peerClosed[q]

\* A reader task for u has pushed u and left its read loop.
ReaderEnded(u) ==
    \E t \in 1..Len(tasks) :
        /\ tasks[t].uri = u
        /\ tasks[t].pushed
        /\ tasks[t].pc = "done"

\* C23: a URI recorded in known_publishers is never removed; once the reader
\* task for u has ended u is still known, every later call for u returns Ok
\* and spawns no reader, and no connection to u is made again.
C23_KnownInv ==
    \A u \in Uris : ReaderEnded(u) => u \in Range(known)

C23_KnownGrows ==
    /\ Len(known') >= Len(known)
    /\ \A i \in 1..Len(known) : known'[i] = known[i]

C23_CallStep ==
    \A u \in Uris :
        (ReaderEnded(u) /\ Len(calls') > Len(calls) /\ calls'[Len(calls')].uri = u) =>
            /\ calls'[Len(calls')].ret = "Ok"
            /\ calls'[Len(calls')].task = 0
            /\ tasks' = tasks

C23_NoDialStep ==
    \A u \in Uris :
        ReaderEnded(u) =>
            \A t \in 1..Len(tasks) :
                (tasks[t].uri = u /\ tasks'[t].dialed) => tasks[t].dialed

C23_NeverReconnects ==
    /\ []C23_KnownInv
    /\ [][C23_KnownGrows /\ C23_CallStep /\ C23_NoDialStep]_vars

\* The bytes written to p since the running pass began.
PassWritten(p) == DropN(wire[p], passBase[p])

\* C24: passes are sequential and hold the peer set's write lock throughout.
\* During a pass the payload is the one dequeued last; the peers before
\* stream_idx have had their write of it (bytes of it written, or failed) and
\* the peers from stream_idx on have been written no byte of it.  A payload
\* is dequeued only between passes; a step taken during a pass pushes no
\* peer into the set, dequeues nothing, keeps the payload, and writes to no
\* peer of the set but the one at stream_idx.
C24_PassInv ==
    pubPc = "write" =>
        /\ idx < Len(streams)
        /\ msg = dequeued[Len(dequeued)]
        /\ \A j \in 1..Len(streams) :
               LET q == streams[j] IN
               /\ passBase[q] >= 0
               /\ j > idx => PassWritten(q) = <<>>
               /\ j <= idx =>
                      /\ q \in failed \/ PassWritten(q) # <<>>
                      /\ PassWritten(q) = Take(msg, Len(PassWritten(q)))

C24_PassStep ==
    /\ dequeued' # dequeued => pubPc = "recv"
    /\ pubPc = "write" =>
           /\ inserted' = inserted
           /\ \A q \in Peers : q \in Range(streams') => q \in Range(streams)
           /\ msg' = msg \/ pubPc' = "aborted"
           /\ \A q \in Range(streams) :
                  q # streams[idx + 1] => wire'[q] = wire[q]
           /\ pubPc' = "write" => idx' \in {idx, idx + 1}

C24_PassesSequential ==
    /\ []C24_PassInv
    /\ [][C24_PassStep]_vars

\* C24 witness: the second pass is waiting on the write to the peer of the
\* set, which was written the whole first payload, while the acceptor, done
\* with the handshake of another peer, waits for the lock.
C24_Witness ==
    /\ pubPc = "write"
    /\ Len(dequeued) = 2
    /\ accPc = "lock"
    /\ \E q \in Range(streams) : DataWritten(q) = Payload(1)
====
